---- MODULE Spec2Model ----
(***************************************************************************)
(* Model of the eth-rewards-calculator reward / penalty engine.            *)
(*                                                                         *)
(* Scaling.  The Go code computes on uint64 and float64.  The model keeps  *)
(* both widths as parameters: an unsigned word has WordBits bits (64 in    *)
(* the build) and a float has FloatBits bits of significand (53 in the     *)
(* build), rounded to nearest-even after every operation.  Balances are    *)
(* counted in units of 1/Unit ETH (the build uses Gwei, 10^9 per ETH), so  *)
(* the balance constants of internal/config keep their value in ETH and    *)
(* are multiplied by Unit.  All other constants keep their source value.   *)
(***************************************************************************)
EXTENDS Integers, Sequences, FiniteSets, TLC

VARIABLES state, call, result, sq

vars == <<state, call, result, sq>>

----------------------------------------------------------------------------
(* Bounds of the model *)

WordBits == 16

FloatBits == 13

Unit == 4

Word == 2^WordBits

----------------------------------------------------------------------------
(* uint64 arithmetic: every operation wraps modulo 2^WordBits *)

AddU(a, b) == (a + b) % Word

SubU(a, b) == (a - b + Word) % Word

\* The product is formed in two halves so that no intermediate value
\* leaves the range of the model checker's integers.
MulU(a, b) ==
    LET lo == a % 256
        hi == a \div 256
    IN  (lo * b + ((hi * b) % (Word \div 256)) * 256) % Word

\* Go panics on an integer division by zero; callers test b = 0 first.
DivU(a, b) == a \div b

MinU(a, b) == IF a < b THEN a ELSE b

MaxU(a, b) == IF a > b THEN a ELSE b

----------------------------------------------------------------------------
(* float64 arithmetic on non-negative values.  A finite value is <<m, e>>, *)
(* standing for m * 2^e with m = 0 (and e = 0) or                          *)
(* 2^(FloatBits-1) <= m < 2^FloatBits, so equal values are equal tuples.   *)
(* +Inf is <<-1, 0>> and NaN is <<-2, 0>>.  The exponent is unbounded.     *)

FZero == <<0, 0>>

FInf == <<-1, 0>>

FNaN == <<-2, 0>>

IsFinite(x) == x[1] >= 0

RECURSIVE BitLen(_)
BitLen(n) == IF n = 0 THEN 0 ELSE 1 + BitLen(n \div 2)

\* n * 2^e rounded to FloatBits significant bits, ties to even.
RoundNat(n, e) ==
    IF n = 0 THEN FZero
    ELSE LET b == BitLen(n) IN
         IF b <= FloatBits
         THEN <<n * 2^(FloatBits - b), e - (FloatBits - b)>>
         ELSE LET s    == b - FloatBits
                  q    == n \div 2^s
                  r    == n % 2^s
                  half == 2^(s - 1)
                  up   == r > half \/ (r = half /\ q % 2 = 1)
                  q2   == IF up THEN q + 1 ELSE q
              IN  IF q2 = 2^FloatBits
                  THEN <<2^(FloatBits - 1), e + s + 1>>
                  ELSE <<q2, e + s>>

\* float64(n) for an integer n.
FromInt(n) == RoundNat(n, 0)

\* (n / d) * 2^e correctly rounded, for naturals n > 0, d > 0: the quotient
\* is formed with two guard bits and a sticky bit.
RoundQuot(n, d, e) ==
    LET k   == MaxU(0, FloatBits + 2 + BitLen(d) - BitLen(n))
        num == n * 2^k
        q   == num \div d
        st  == IF num % d = 0 THEN 0 ELSE 1
    IN  RoundNat(2 * q + st, e - k - 1)

\* A decimal literal n/d of the source, e.g. 0.6 is Lit(6, 10).
Lit(n, d) == IF n = 0 THEN FZero ELSE RoundQuot(n, d, 0)

FMul(x, y) ==
    IF x = FNaN \/ y = FNaN THEN FNaN
    ELSE IF x = FInf \/ y = FInf
         THEN (IF x = FZero \/ y = FZero THEN FNaN ELSE FInf)
    ELSE RoundNat(x[1] * y[1], x[2] + y[2])

FDiv(x, y) ==
    IF x = FNaN \/ y = FNaN THEN FNaN
    ELSE IF x = FInf THEN (IF y = FInf THEN FNaN ELSE FInf)
    ELSE IF y = FInf THEN FZero
    ELSE IF y = FZero THEN (IF x = FZero THEN FNaN ELSE FInf)
    ELSE IF x = FZero THEN FZero
    ELSE RoundQuot(x[1], y[1], x[2] - y[2])

FAdd(x, y) ==
    IF x = FNaN \/ y = FNaN THEN FNaN
    ELSE IF x = FInf \/ y = FInf THEN FInf
    ELSE IF x = FZero THEN y
    ELSE IF y = FZero THEN x
    ELSE LET hi == IF x[2] >= y[2] THEN x ELSE y
             lo == IF x[2] >= y[2] THEN y ELSE x
             d  == hi[2] - lo[2]
         IN  IF d > FloatBits + 1 THEN hi
             ELSE RoundNat(hi[1] * 2^d + lo[1], lo[2])

\* x < y on floats; every comparison with NaN is false.
FLess(x, y) ==
    IF x = FNaN \/ y = FNaN THEN FALSE
    ELSE IF x = FInf THEN FALSE
    ELSE IF y = FInf THEN TRUE
    ELSE IF y = FZero THEN FALSE
    ELSE IF x = FZero THEN TRUE
    ELSE x[2] < y[2] \/ (x[2] = y[2] /\ x[1] < y[1])

\* uint64(x) for a finite x inside the word range: truncation toward zero.
ToUint(x) ==
    IF x[2] >= 0 THEN x[1] * 2^(x[2]) ELSE x[1] \div 2^(-x[2])

\* floor(sqrt(n)) of a natural n, one bit of the root at a time.
RECURSIVE RootBits(_, _, _)
RootBits(n, r, bit) ==
    IF bit = 0 THEN r
    ELSE LET c == r + bit
         IN  RootBits(n, IF c * c <= n THEN c ELSE r, bit \div 2)

\* math.Sqrt: the correctly rounded square root.  The radicand is scaled to
\* an integer of 2*FloatBits+1 or 2*FloatBits+2 bits with an even exponent,
\* whose integer root has FloatBits+1 bits; the remainder is the sticky bit.
FSqrt(x) ==
    IF x = FNaN \/ x = FInf \/ x = FZero THEN x
    ELSE LET k0  == FloatBits + 1
             k   == IF (x[2] - k0) % 2 = 0 THEN k0 ELSE k0 + 1
             rad == x[1] * 2^k
             s   == RootBits(rad, 0, 2^FloatBits)
             st  == IF s * s = rad THEN 0 ELSE 1
         IN  RoundNat(2 * s + st, ((x[2] - k) \div 2) - 1)

----------------------------------------------------------------------------
(* internal/config: protocol constants *)

BASE_REWARD_FACTOR == 64

PROPOSER_REWARD_QUOTIENT == 8

WHISTLEBLOWER_REWARD_QUOTIENT == 512

INACTIVITY_SCORE_BIAS == 4

TIMELY_SOURCE_WEIGHT == 14

TIMELY_TARGET_WEIGHT == 26

TIMELY_HEAD_WEIGHT == 14

SYNC_REWARD_WEIGHT == 2

PROPOSER_WEIGHT == 8

WEIGHT_DENOMINATOR == 64

\* 1 ETH in balance units (1000000000 Gwei in the build)
EFFECTIVE_BALANCE_INCREMENT == 1 * Unit

\* 32 ETH in balance units (32000000000 Gwei in the build)
MAX_EFFECTIVE_BALANCE == 32 * Unit

SLOTS_PER_EPOCH == 32

EPOCHS_PER_YEAR == 82180

EPOCHS_PER_DAY == 225

MIN_ATTESTATION_INCLUSION_DELAY == 1

\* The fork quotients of the build are 2^26, 3 * 2^24 and 2^25; a word of
\* WordBits bits holds them divided by 2^QuotientShift.
QuotientShift == 20

INACTIVITY_PENALTY_QUOTIENT == 67108864 \div 2^QuotientShift

INACTIVITY_PENALTY_QUOTIENT_ALTAIR == 50331648 \div 2^QuotientShift

INACTIVITY_PENALTY_QUOTIENT_BELLATRIX == 33554432 \div 2^QuotientShift

MIN_SLASHING_PENALTY_QUOTIENT == 128

MIN_SLASHING_PENALTY_QUOTIENT_ALTAIR == 64

MIN_SLASHING_PENALTY_QUOTIENT_BELLATRIX == 32

PROPORTIONAL_SLASHING_MULTIPLIER == 1

PROPORTIONAL_SLASHING_MULTIPLIER_ALTAIR == 2

PROPORTIONAL_SLASHING_MULTIPLIER_BELLATRIX == 3

\* The divisor of the Phase 0 base-reward formula.
BASE_REWARDS_PER_EPOCH == 4

\* Validator set limits.  Validator counts are Go ints and are not scaled.
CHURN_LIMIT_QUOTIENT == 65536

MIN_PER_EPOCH_CHURN_LIMIT == 4

MAX_PER_EPOCH_ACTIVATION_CHURN_LIMIT == 8

\* A lookup that leaves the fields of an unknown fork at zero.
GetForkConfigZero(fork) ==
    IF fork = "phase0" THEN
        [Version |-> "0x00000000",
         InactivityPenaltyQuotient |-> INACTIVITY_PENALTY_QUOTIENT,
         MinSlashingPenaltyQuotient |-> MIN_SLASHING_PENALTY_QUOTIENT,
         ProportionalSlashingMultiplier |-> PROPORTIONAL_SLASHING_MULTIPLIER]
    ELSE IF fork = "altair" THEN
        [Version |-> "0x01000000",
         InactivityPenaltyQuotient |-> INACTIVITY_PENALTY_QUOTIENT_ALTAIR,
         MinSlashingPenaltyQuotient |-> MIN_SLASHING_PENALTY_QUOTIENT_ALTAIR,
         ProportionalSlashingMultiplier |-> PROPORTIONAL_SLASHING_MULTIPLIER_ALTAIR]
    ELSE IF fork \in {"bellatrix", "merge"} THEN
        [Version |-> "0x02000000",
         InactivityPenaltyQuotient |-> INACTIVITY_PENALTY_QUOTIENT_BELLATRIX,
         MinSlashingPenaltyQuotient |-> MIN_SLASHING_PENALTY_QUOTIENT_BELLATRIX,
         ProportionalSlashingMultiplier |-> PROPORTIONAL_SLASHING_MULTIPLIER_BELLATRIX]
    ELSE [Version |-> "", InactivityPenaltyQuotient |-> 0,
          MinSlashingPenaltyQuotient |-> 0, ProportionalSlashingMultiplier |-> 0]

\* A lookup with the inactivity quotients of phase0 and altair exchanged.
GetForkConfigSwapped(fork) ==
    IF fork = "phase0" THEN
        [Version |-> "0x00000000",
         InactivityPenaltyQuotient |-> INACTIVITY_PENALTY_QUOTIENT_ALTAIR,
         MinSlashingPenaltyQuotient |-> MIN_SLASHING_PENALTY_QUOTIENT,
         ProportionalSlashingMultiplier |-> PROPORTIONAL_SLASHING_MULTIPLIER]
    ELSE IF fork = "altair" THEN
        [Version |-> "0x01000000",
         InactivityPenaltyQuotient |-> INACTIVITY_PENALTY_QUOTIENT,
         MinSlashingPenaltyQuotient |-> MIN_SLASHING_PENALTY_QUOTIENT_ALTAIR,
         ProportionalSlashingMultiplier |-> PROPORTIONAL_SLASHING_MULTIPLIER_ALTAIR]
    ELSE
        [Version |-> "0x02000000",
         InactivityPenaltyQuotient |-> INACTIVITY_PENALTY_QUOTIENT_BELLATRIX,
         MinSlashingPenaltyQuotient |-> MIN_SLASHING_PENALTY_QUOTIENT_BELLATRIX,
         ProportionalSlashingMultiplier |-> PROPORTIONAL_SLASHING_MULTIPLIER_BELLATRIX]

RECURSIVE GetForkConfig(_)
GetForkConfig(fork) ==
    IF fork = "phase0" THEN
        [Version |-> "0x00000000",
         InactivityPenaltyQuotient |-> INACTIVITY_PENALTY_QUOTIENT,
         MinSlashingPenaltyQuotient |-> MIN_SLASHING_PENALTY_QUOTIENT,
         ProportionalSlashingMultiplier |-> PROPORTIONAL_SLASHING_MULTIPLIER]
    ELSE IF fork = "altair" THEN
        [Version |-> "0x01000000",
         InactivityPenaltyQuotient |-> INACTIVITY_PENALTY_QUOTIENT_ALTAIR,
         MinSlashingPenaltyQuotient |-> MIN_SLASHING_PENALTY_QUOTIENT_ALTAIR,
         ProportionalSlashingMultiplier |-> PROPORTIONAL_SLASHING_MULTIPLIER_ALTAIR]
    ELSE IF fork \in {"bellatrix", "merge"} THEN
        [Version |-> "0x02000000",
         InactivityPenaltyQuotient |-> INACTIVITY_PENALTY_QUOTIENT_BELLATRIX,
         MinSlashingPenaltyQuotient |-> MIN_SLASHING_PENALTY_QUOTIENT_BELLATRIX,
         ProportionalSlashingMultiplier |-> PROPORTIONAL_SLASHING_MULTIPLIER_BELLATRIX]
    ELSE GetForkConfig("bellatrix")

\* The number of activations of GetForkConfig a call makes, its own
\* included: the default case calls it once more.
RECURSIVE GetForkConfigDepth(_)
GetForkConfigDepth(fork) ==
    IF fork \in {"phase0", "altair", "bellatrix", "merge"} THEN 1
    ELSE 1 + GetForkConfigDepth("bellatrix")

----------------------------------------------------------------------------
(* IntegerSquareRoot *)

\* x := uint64(math.Sqrt(float64(n)))
SqrtSeed(n) == ToUint(FSqrt(FromInt(n)))

\* x1 := (x + n/x) / 2
NewtonNext(n, x) == DivU(AddU(x, DivU(n, x)), 2)

\* A loop test that goes on when the iterate repeats: if x1 > x { return x }
NewtonDoneStrict(x, x1) == x1 > x

\* A loop test that gives up one step early: if x1 + 1 >= x { return x }
NewtonDoneEarly(x, x1) == x1 + 1 >= x

\* if x1 >= x { return x }
NewtonDone(x, x1) == x1 >= x

RECURSIVE NewtonLoop(_, _)
NewtonLoop(n, x) ==
    LET x1 == NewtonNext(n, x)
    IN  IF NewtonDone(x, x1) THEN x ELSE NewtonLoop(n, x1)

IntegerSquareRoot(n) == IF n = 0 THEN 0 ELSE NewtonLoop(n, SqrtSeed(n))

----------------------------------------------------------------------------
(* The square-root machine: IntegerSquareRoot run one statement at a time. *)
(* sq.pc is "call" before the call, "loop" at the head of the for loop and *)
(* "done" after a return; sq.ret is the value returned.                    *)

SqrtInputs == 0 .. Word - 1

SqrtIdle == [pc |-> "idle", n |-> 0, x |-> 0, ret |-> 0]

EngineIdle ==
    /\ state = [Validators |-> <<>>, TotalActiveBalance |-> 0,
                CurrentEpoch |-> 0, FinalizedEpoch |-> 0, CurrentFork |-> ""]
    /\ call = [op |-> "none"]
    /\ result = [status |-> "none"]

SqrtInit ==
    /\ EngineIdle
    /\ \E n \in SqrtInputs : sq = [pc |-> "call", n |-> n, x |-> 0, ret |-> 0]

\* if n == 0 { return 0 }
SqrtZero ==
    /\ sq.pc = "call"
    /\ sq.n = 0
    /\ sq' = [sq EXCEPT !.pc = "done", !.ret = 0]
    /\ UNCHANGED <<state, call, result>>

\* x := uint64(math.Sqrt(float64(n)))
SqrtGuess ==
    /\ sq.pc = "call"
    /\ sq.n # 0
    /\ sq' = [sq EXCEPT !.pc = "loop", !.x = SqrtSeed(sq.n)]
    /\ UNCHANGED <<state, call, result>>

\* one pass of the loop that does not return: x = x1
SqrtIterate ==
    /\ sq.pc = "loop"
    /\ sq.x # 0
    /\ ~NewtonDone(sq.x, NewtonNext(sq.n, sq.x))
    /\ sq' = [sq EXCEPT !.x = NewtonNext(sq.n, sq.x)]
    /\ UNCHANGED <<state, call, result>>

\* the pass of the loop that returns x
SqrtReturn ==
    /\ sq.pc = "loop"
    /\ sq.x # 0
    /\ NewtonDone(sq.x, NewtonNext(sq.n, sq.x))
    /\ sq' = [sq EXCEPT !.pc = "done", !.ret = sq.x]
    /\ UNCHANGED <<state, call, result>>

SqrtNext == SqrtZero \/ SqrtGuess \/ SqrtIterate \/ SqrtReturn

SpecSqrt == SqrtInit /\ [][SqrtNext]_vars

NewtonInit ==
    /\ EngineIdle
    /\ sq = SqrtIdle

\* IntegerSquareRoot(n) is called.
SqrtCall ==
    /\ sq.pc = "idle"
    /\ \E n \in SqrtInputs : sq' = [pc |-> "call", n |-> n, x |-> 0, ret |-> 0]
    /\ UNCHANGED <<state, call, result>>

SqrtRunNext == SqrtCall \/ SqrtNext

\* One pass of the for loop, returning or not.
NewtonPass == SqrtIterate \/ SqrtReturn

\* The function runs: at the head of the loop it makes the next pass.
SpecSqrtFair == NewtonInit /\ [][SqrtRunNext]_vars /\ WF_vars(NewtonPass)

----------------------------------------------------------------------------
(* Outcomes.  A Go function of the engine either returns or panics; a      *)
(* panic unwinds the call, so nothing is returned.                         *)

Ok(v) == [status |-> "ok", value |-> v]

PanicIndex == [status |-> "panic", error |-> "index out of range"]

PanicDivide == [status |-> "panic", error |-> "integer divide by zero"]

\* state.Validators[i]: the runtime checks 0 <= i < len before the access.
InRange(st, i) == 0 <= i /\ i < Len(st.Validators)

ValidatorAt(st, i) == st.Validators[i + 1]

----------------------------------------------------------------------------
(* Participation rates.  A rate is the pair <<n, d>> of the decimal the    *)
(* caller passed; RateF is its float64.  A comparison of a rate with a     *)
(* literal is decided on the exact values: at 53 bits the rounding of two  *)
(* decimals that differ never reorders them.                               *)

RateF(p) == Lit(p[1], p[2])

RatLess(p, q) == p[1] * q[2] < q[1] * p[2]

RatLeq(p, q) == p[1] * q[2] <= q[1] * p[2]

----------------------------------------------------------------------------
(* Reward engine (the Electra variant of internal/calculator)              *)

\* A base reward that takes the square root and divides before it reads
\* the validator.
GetBaseRewardDivideFirst(st, i) ==
    LET root == IntegerSquareRoot(st.TotalActiveBalance)
    IN  IF root = 0 THEN PanicDivide
        ELSE IF ~InRange(st, i) THEN PanicIndex
        ELSE Ok(DivU(MulU(ValidatorAt(st, i).EffectiveBalance, BASE_REWARD_FACTOR), root))

GetBaseReward(st, i) ==
    IF ~InRange(st, i) THEN PanicIndex
    ELSE LET totalBalance     == st.TotalActiveBalance
             effectiveBalance == ValidatorAt(st, i).EffectiveBalance
             root             == IntegerSquareRoot(totalBalance)
         IN  IF root = 0 THEN PanicDivide
             ELSE Ok(DivU(MulU(effectiveBalance, BASE_REWARD_FACTOR), root))

GetBaseRewardPerIncrement(st) ==
    LET root == IntegerSquareRoot(st.TotalActiveBalance)
    IN  IF root = 0 THEN PanicDivide
        ELSE Ok(DivU(MulU(EFFECTIVE_BALANCE_INCREMENT, BASE_REWARD_FACTOR), root))

\* GetBaseReward of the Phase 0 variant of the engine: the same quotient,
\* divided by BASE_REWARDS_PER_EPOCH.
GetBaseRewardLegacy(st, i) ==
    IF ~InRange(st, i) THEN PanicIndex
    ELSE LET totalBalance     == st.TotalActiveBalance
             effectiveBalance == ValidatorAt(st, i).EffectiveBalance
             root             == IntegerSquareRoot(totalBalance)
         IN  IF root = 0 THEN PanicDivide
             ELSE Ok(DivU(DivU(MulU(effectiveBalance, BASE_REWARD_FACTOR), root),
                          BASE_REWARDS_PER_EPOCH))

\* GetBaseRewardPerIncrement of the Phase 0 variant.
GetBaseRewardPerIncrementLegacy(st) ==
    LET root == IntegerSquareRoot(st.TotalActiveBalance)
    IN  IF root = 0 THEN PanicDivide
        ELSE Ok(DivU(DivU(MulU(EFFECTIVE_BALANCE_INCREMENT, BASE_REWARD_FACTOR), root),
                     BASE_REWARDS_PER_EPOCH))

\* README, Base Reward:
\* effective_balance x base_reward_factor / sqrt(total_active_balance) / 4
ReadmeBaseReward(effectiveBalance, totalActiveBalance) ==
    ((effectiveBalance * BASE_REWARD_FACTOR)
        \div IntegerSquareRoot(totalActiveBalance)) \div 4

\* A component that divides before it multiplies:
\* baseReward / WEIGHT_DENOMINATOR * weight
ComponentRewardDivideFirst(baseReward, weight) ==
    MulU(DivU(baseReward, WEIGHT_DENOMINATOR), weight)

\* A component that rounds the quotient up.
ComponentRewardRoundUp(baseReward, weight) ==
    DivU(AddU(MulU(baseReward, weight), WEIGHT_DENOMINATOR - 1), WEIGHT_DENOMINATOR)

\* baseReward * weight / WEIGHT_DENOMINATOR
ComponentReward(baseReward, weight) ==
    DivU(MulU(baseReward, weight), WEIGHT_DENOMINATOR)

EstimateAttestationsPerBlock(st) ==
    LET validatorCount      == FromInt(Len(st.Validators))
        maxIncludableRate   == Lit(6, 10)
        attestationsPerSlot == FDiv(validatorCount, FromInt(SLOTS_PER_EPOCH))
        slotsToInclude      == FromInt(8)
    IN  FMul(FMul(attestationsPerSlot, slotsToInclude), maxIncludableRate)

CalculateAttestationInclusionReward(st, participationRate) ==
    LET inc == GetBaseRewardPerIncrement(st)
    IN  IF inc.status # "ok" THEN inc
        ELSE LET estimatedAttestations       == EstimateAttestationsPerBlock(st)
                 avgComponentsPerAttestation == Lit(28, 10)
                 effectiveAttestations       == FMul(estimatedAttestations, participationRate)
                 inclusionEffectiveness      == Lit(9, 10)
                 finalAttestations           == FMul(effectiveAttestations, inclusionEffectiveness)
                 proposerRewardPerComponent  == DivU(inc.value, PROPOSER_REWARD_QUOTIENT)
             IN  Ok(MulU(ToUint(FMul(finalAttestations, avgComponentsPerAttestation)),
                         proposerRewardPerComponent))

WarnCritical == "CRITICAL: Network participation below 33.33% - chain cannot finalize"

WarnLeak == "WARNING: Network participation below 66.67% - inactivity leak active"

WarnCaution == "CAUTION: Network participation below 80% - reduced security"

\* A classification that cuts at the fractions 1/3 and 2/3 themselves.
NetworkHealthWarningThirds(p) ==
    IF RatLess(p, <<1, 3>>) THEN WarnCritical
    ELSE IF RatLess(p, <<2, 3>>) THEN WarnLeak
    ELSE IF RatLess(p, <<8, 10>>) THEN WarnCaution
    ELSE ""

\* The network health warning of CalculateRewards.
NetworkHealthWarning(p) ==
    IF RatLess(p, <<3333, 10000>>) THEN WarnCritical
    ELSE IF RatLess(p, <<6667, 10000>>) THEN WarnLeak
    ELSE IF RatLess(p, <<8, 10>>) THEN WarnCaution
    ELSE ""

\* A multiplier that is the rate itself instead of its inverse.
ParticipationMultiplierDirect(participationRate) == participationRate

\* participationMultiplier := 1.0 / participationRate
ParticipationMultiplier(participationRate) == FDiv(FromInt(1), participationRate)

\* (annual / float64(MAX_EFFECTIVE_BALANCE)) * 100
AnnualToAPY(annual) ==
    FMul(FDiv(annual, FromInt(MAX_EFFECTIVE_BALANCE)), FromInt(100))

\* CalculateRewards(state, participationRate) with participationRate the
\* rate p.  InclusionEffectivenessRate, a figure derived from the rate alone
\* that no other field reads, is left out.
CalculateRewards(st, p) ==
    LET base == GetBaseReward(st, 0)
    IN  IF base.status # "ok" THEN base
        ELSE
        LET participationRate == RateF(p)
            validatorCount    == Len(st.Validators)
            baseReward        == base.value
            sqrtTotal         == IntegerSquareRoot(st.TotalActiveBalance)
            sourceReward      == ComponentReward(baseReward, TIMELY_SOURCE_WEIGHT)
            targetReward      == ComponentReward(baseReward, TIMELY_TARGET_WEIGHT)
            headReward        == ComponentReward(baseReward, TIMELY_HEAD_WEIGHT)
            attestationReward == AddU(AddU(sourceReward, targetReward), headReward)
            proposerProbability == FDiv(FromInt(1), FromInt(validatorCount))
            proposalsPerYear    == FMul(proposerProbability, FromInt(EPOCHS_PER_YEAR))
            attestationInclusionReward ==
                CalculateAttestationInclusionReward(st, participationRate).value
            avgProposerReward      == FromInt(attestationInclusionReward)
            proposerRewardPerEpoch == FMul(avgProposerReward, proposerProbability)
            baseAttestationAnnual  == FMul(FromInt(attestationReward), FromInt(EPOCHS_PER_YEAR))
            baseProposerAnnual     == FMul(proposerRewardPerEpoch, FromInt(EPOCHS_PER_YEAR))
            baseTotalAnnual        == FAdd(baseAttestationAnnual, baseProposerAnnual)
            baseAPY                == AnnualToAPY(baseTotalAnnual)
            participationMultiplier == ParticipationMultiplier(participationRate)
            attestationAnnual == FMul(baseAttestationAnnual, participationMultiplier)
            proposerAnnual    == FMul(baseProposerAnnual, participationMultiplier)
            totalAnnual       == FAdd(attestationAnnual, proposerAnnual)
            effectiveAPY      == AnnualToAPY(totalAnnual)
        IN  [status                     |-> "ok",
             ValidatorCount             |-> validatorCount,
             TotalStaked                |-> st.TotalActiveBalance,
             ParticipationRate          |-> participationRate,
             SqrtTotalBalance           |-> sqrtTotal,
             BaseRewardPerEpoch         |-> baseReward,
             SourceReward               |-> sourceReward,
             TargetReward               |-> targetReward,
             HeadReward                 |-> headReward,
             AttestationRewardPerEpoch  |-> attestationReward,
             ProposerProbability        |-> proposerProbability,
             ExpectedProposalsPerYear   |-> proposalsPerYear,
             AvgProposerRewardPerBlock  |-> avgProposerReward,
             ProposerRewardPerEpoch     |-> proposerRewardPerEpoch,
             EstimatedAttestationsPerBlock |-> EstimateAttestationsPerBlock(st),
             AttestationInclusionReward |-> attestationInclusionReward,
             AttestationRewardsAnnual   |-> attestationAnnual,
             ProposerRewardsAnnual      |-> proposerAnnual,
             TotalAnnualRewards         |-> totalAnnual,
             APY                        |-> effectiveAPY,
             DailyRewards               |-> FDiv(totalAnnual, Lit(36525, 100)),
             WeeklyRewards              |-> FDiv(totalAnnual, Lit(5218, 100)),
             MonthlyRewards             |-> FDiv(totalAnnual, FromInt(12)),
             ParticipationMultiplier    |-> participationMultiplier,
             BaseAPY                    |-> baseAPY,
             EffectiveAPY               |-> effectiveAPY,
             InactivityLeakActive       |-> RatLess(p, <<6667, 10000>>),
             NetworkHealthWarning       |-> NetworkHealthWarning(p),
             \* locals of the function, kept beside the fields that are built from them
             baseAttestationAnnual      |-> baseAttestationAnnual,
             baseProposerAnnual         |-> baseProposerAnnual]

\* The late-inclusion scaling of a reward:
\* reward * PROPOSER_REWARD_QUOTIENT /
\*     (PROPOSER_REWARD_QUOTIENT + inclusionDelay - MIN_ATTESTATION_INCLUSION_DELAY)
DelayedReward(reward, inclusionDelay) ==
    LET denominator == SubU(AddU(PROPOSER_REWARD_QUOTIENT, inclusionDelay),
                            MIN_ATTESTATION_INCLUSION_DELAY)
    IN  IF denominator = 0 THEN PanicDivide
        ELSE Ok(DivU(MulU(reward, PROPOSER_REWARD_QUOTIENT), denominator))

\* An attestation reward that pays only the attestation with all three
\* votes correct.
CalculateAttestationRewardAllOrNothing(st, i, correctSource, correctTarget, correctHead, inclusionDelay) ==
    LET base == GetBaseReward(st, i)
    IN  IF base.status # "ok" THEN base
        ELSE LET all == AddU(AddU(ComponentReward(base.value, TIMELY_SOURCE_WEIGHT),
                                  ComponentReward(base.value, TIMELY_TARGET_WEIGHT)),
                             ComponentReward(base.value, TIMELY_HEAD_WEIGHT))
                 r3  == IF correctSource /\ correctTarget /\ correctHead THEN all ELSE 0
             IN  IF inclusionDelay > MIN_ATTESTATION_INCLUSION_DELAY /\ r3 > 0
                 THEN DelayedReward(r3, inclusionDelay)
                 ELSE Ok(r3)

CalculateAttestationReward(st, i, correctSource, correctTarget, correctHead, inclusionDelay) ==
    LET base == GetBaseReward(st, i)
    IN  IF base.status # "ok" THEN base
        ELSE LET baseReward == base.value
                 r1 == IF correctSource
                       THEN ComponentReward(baseReward, TIMELY_SOURCE_WEIGHT) ELSE 0
                 r2 == IF correctTarget
                       THEN AddU(r1, ComponentReward(baseReward, TIMELY_TARGET_WEIGHT)) ELSE r1
                 r3 == IF correctHead
                       THEN AddU(r2, ComponentReward(baseReward, TIMELY_HEAD_WEIGHT)) ELSE r2
             IN  IF inclusionDelay > MIN_ATTESTATION_INCLUSION_DELAY /\ r3 > 0
                 THEN DelayedReward(r3, inclusionDelay)
                 ELSE Ok(r3)

----------------------------------------------------------------------------
(* Penalty engine *)

GetInactivityPenalty(st, i) ==
    IF ~InRange(st, i) THEN PanicIndex
    ELSE LET validator == ValidatorAt(st, i)
         IN  IF st.CurrentEpoch <= AddU(st.FinalizedEpoch, MIN_ATTESTATION_INCLUSION_DELAY)
             THEN Ok(0)
             ELSE LET forkConfig         == GetForkConfig(st.CurrentFork)
                      penaltyNumerator   == MulU(validator.EffectiveBalance,
                                                 validator.InactivityScore)
                      penaltyDenominator == MulU(INACTIVITY_SCORE_BIAS,
                                                 forkConfig.InactivityPenaltyQuotient)
                  IN  IF penaltyDenominator = 0 THEN PanicDivide
                      ELSE Ok(DivU(penaltyNumerator, penaltyDenominator))

\* float64(perEpoch * EPOCHS_PER_DAY) / 1e9: Gwei per day, shown in ETH
DailyETH(perEpoch) == FDiv(FromInt(MulU(perEpoch, EPOCHS_PER_DAY)), FromInt(Unit))

\* A recurrence that resets the score when the chain finalizes.
CalculateInactivityScoreReset(previousScore, isActive, isFinalized) ==
    IF isFinalized THEN 0
    ELSE IF ~isActive THEN AddU(previousScore, INACTIVITY_SCORE_BIAS)
    ELSE AddU(previousScore, 1)

\* A recurrence that adds 1 for an inactive epoch too.
CalculateInactivityScoreUnit(previousScore, isActive, isFinalized) ==
    IF isFinalized
    THEN IF previousScore > 0 THEN SubU(previousScore, MinU(1, previousScore)) ELSE 0
    ELSE AddU(previousScore, 1)

\* A recurrence that takes 1 off the score in a finalized epoch without
\* looking at it first.
CalculateInactivityScoreUnguarded(previousScore, isActive, isFinalized) ==
    IF isFinalized THEN SubU(previousScore, 1)
    ELSE IF ~isActive THEN AddU(previousScore, INACTIVITY_SCORE_BIAS)
    ELSE AddU(previousScore, 1)

CalculateInactivityScore(previousScore, isActive, isFinalized) ==
    IF isFinalized
    THEN IF previousScore > 0 THEN SubU(previousScore, MinU(1, previousScore)) ELSE 0
    ELSE IF ~isActive THEN AddU(previousScore, INACTIVITY_SCORE_BIAS)
    ELSE AddU(previousScore, 1)

\* CalculatePenalties with the head duty charged at the target weight.
CalculatePenaltiesHeadAsTarget(st, i, correctSource, correctTarget, correctHead) ==
    LET base == GetBaseReward(st, i)
    IN  IF base.status # "ok" THEN base
        ELSE
        LET baseReward    == base.value
            sourcePenalty == IF ~correctSource
                             THEN ComponentReward(baseReward, TIMELY_SOURCE_WEIGHT) ELSE 0
            targetPenalty == IF ~correctTarget
                             THEN ComponentReward(baseReward, TIMELY_TARGET_WEIGHT) ELSE 0
            headPenalty   == IF ~correctHead
                             THEN ComponentReward(baseReward, TIMELY_TARGET_WEIGHT) ELSE 0
            total         == AddU(AddU(sourcePenalty, targetPenalty), headPenalty)
            inWindow      == st.CurrentEpoch >
                             AddU(st.FinalizedEpoch, MIN_ATTESTATION_INCLUSION_DELAY)
            inactivity    == IF inWindow THEN GetInactivityPenalty(st, i) ELSE Ok(0)
        IN  IF inactivity.status # "ok" THEN inactivity
            ELSE [status                  |-> "ok",
                  SourcePenalty           |-> sourcePenalty,
                  TargetPenalty           |-> targetPenalty,
                  HeadPenalty             |-> headPenalty,
                  TotalAttestationPenalty |-> total,
                  InactivityScore         |-> ValidatorAt(st, i).InactivityScore,
                  InactivityPenalty       |-> inactivity.value,
                  DailyAttestationPenalty |-> DailyETH(total),
                  DailyInactivityPenalty  |-> DailyETH(inactivity.value)]

CalculatePenalties(st, i, correctSource, correctTarget, correctHead) ==
    LET base == GetBaseReward(st, i)
    IN  IF base.status # "ok" THEN base
        ELSE
        LET baseReward    == base.value
            sourcePenalty == IF ~correctSource
                             THEN ComponentReward(baseReward, TIMELY_SOURCE_WEIGHT) ELSE 0
            targetPenalty == IF ~correctTarget
                             THEN ComponentReward(baseReward, TIMELY_TARGET_WEIGHT) ELSE 0
            headPenalty   == IF ~correctHead
                             THEN ComponentReward(baseReward, TIMELY_HEAD_WEIGHT) ELSE 0
            total         == AddU(AddU(sourcePenalty, targetPenalty), headPenalty)
            inWindow      == st.CurrentEpoch >
                             AddU(st.FinalizedEpoch, MIN_ATTESTATION_INCLUSION_DELAY)
            inactivity    == IF inWindow THEN GetInactivityPenalty(st, i) ELSE Ok(0)
        IN  IF inactivity.status # "ok" THEN inactivity
            ELSE [status                  |-> "ok",
                  SourcePenalty           |-> sourcePenalty,
                  TargetPenalty           |-> targetPenalty,
                  HeadPenalty             |-> headPenalty,
                  TotalAttestationPenalty |-> total,
                  InactivityScore         |-> ValidatorAt(st, i).InactivityScore,
                  InactivityPenalty       |-> inactivity.value,
                  DailyAttestationPenalty |-> DailyETH(total),
                  DailyInactivityPenalty  |-> DailyETH(inactivity.value)]

CalculateSlashingPenalties(st, i, totalSlashedBalance) ==
    IF ~InRange(st, i) THEN PanicIndex
    ELSE
    LET validator  == ValidatorAt(st, i)
        forkConfig == GetForkConfig(st.CurrentFork)
    IN  IF forkConfig.MinSlashingPenaltyQuotient = 0 \/ st.TotalActiveBalance = 0
        THEN PanicDivide
        ELSE
        LET initialPenalty == DivU(validator.EffectiveBalance,
                                   forkConfig.MinSlashingPenaltyQuotient)
            proportionalPenalty ==
                DivU(MulU(validator.EffectiveBalance,
                          MinU(MulU(totalSlashedBalance,
                                    forkConfig.ProportionalSlashingMultiplier),
                               st.TotalActiveBalance)),
                     st.TotalActiveBalance)
            totalPenalty        == AddU(initialPenalty, proportionalPenalty)
            whistleblowerReward == DivU(validator.EffectiveBalance,
                                        WHISTLEBLOWER_REWARD_QUOTIENT)
            proposerReward      == DivU(whistleblowerReward, PROPOSER_REWARD_QUOTIENT)
        IN  [status              |-> "ok",
             InitialPenalty      |-> initialPenalty,
             ProportionalPenalty |-> proportionalPenalty,
             TotalPenalty        |-> totalPenalty,
             PercentageOfStake   |-> FMul(FDiv(FromInt(totalPenalty),
                                               FromInt(validator.EffectiveBalance)),
                                          FromInt(100)),
             WhistleblowerReward |-> whistleblowerReward,
             ProposerReward      |-> proposerReward]

\* getSecurityImpactLevel: the switch on the slashed percentage.
getSecurityImpactLevel(slashingPercentage) ==
    IF FLess(slashingPercentage, Lit(1, 10)) THEN "Minimal"
    ELSE IF FLess(slashingPercentage, FromInt(1)) THEN "Low"
    ELSE IF FLess(slashingPercentage, FromInt(5)) THEN "Moderate"
    ELSE IF FLess(slashingPercentage, FromInt(10)) THEN "High"
    ELSE IF FLess(slashingPercentage, Lit(333, 10)) THEN "Critical"
    ELSE "Catastrophic"

\* float64(gwei) / 1e9
GweiToETH(gwei) == FDiv(FromInt(gwei), FromInt(Unit))

\* The penalty part of the report of EstimateSlashingImpact.
PenaltyReport(slashing) ==
    [initial_eth      |-> GweiToETH(slashing.InitialPenalty),
     proportional_eth |-> GweiToETH(slashing.ProportionalPenalty),
     total_eth        |-> GweiToETH(slashing.TotalPenalty),
     percentage       |-> slashing.PercentageOfStake]

\* EstimateSlashingImpact; uint64(slashedValidatorCount) is the count modulo
\* the word.
EstimateSlashingImpact(st, slashedValidatorCount) ==
    LET slashedBalance     == MulU(slashedValidatorCount % Word, MAX_EFFECTIVE_BALANCE)
        slashingPercentage == FMul(FDiv(FromInt(slashedBalance),
                                        FromInt(st.TotalActiveBalance)),
                                   FromInt(100))
        singleSlashing     == CalculateSlashingPenalties(st, 0, MAX_EFFECTIVE_BALANCE)
        correlatedSlashing == CalculateSlashingPenalties(st, 0, slashedBalance)
    IN  IF singleSlashing.status # "ok" THEN singleSlashing
        ELSE IF correlatedSlashing.status # "ok" THEN correlatedSlashing
        ELSE [status                   |-> "ok",
              slashed_validator_count  |-> slashedValidatorCount,
              slashed_balance_eth      |-> GweiToETH(slashedBalance),
              network_percentage       |-> slashingPercentage,
              single_validator_penalty |-> PenaltyReport(singleSlashing),
              correlated_penalty       |-> PenaltyReport(correlatedSlashing),
              network_impact           |->
                  [total_penalties_eth |->
                       GweiToETH(MulU(correlatedSlashing.TotalPenalty,
                                      slashedValidatorCount % Word)),
                   reduced_staking_eth |-> GweiToETH(slashedBalance),
                   security_impact     |-> getSecurityImpactLevel(slashingPercentage)]]

\* An activation queue whose churn limit has no upper cap.
EstimateValidatorQueueUncapped(currentValidators, pendingValidators) ==
    LET churnLimit == MaxU(MIN_PER_EPOCH_CHURN_LIMIT,
                           currentValidators \div CHURN_LIMIT_QUOTIENT)
        epochs     == FDiv(FromInt(pendingValidators), FromInt(churnLimit))
    IN  [status |-> "ok", epochs |-> epochs,
         days |-> FDiv(epochs, FromInt(EPOCHS_PER_DAY)), churnLimit |-> churnLimit]

\* EstimateValidatorQueue, for counts that are not negative: uint64 of such
\* a count is the count.  churnLimit is the local of that name, kept beside
\* the two values returned.
EstimateValidatorQueue(currentValidators, pendingValidators) ==
    LET limit      == MaxU(MIN_PER_EPOCH_CHURN_LIMIT,
                           currentValidators \div CHURN_LIMIT_QUOTIENT)
        churnLimit == MinU(limit, MAX_PER_EPOCH_ACTIVATION_CHURN_LIMIT)
        epochs     == FDiv(FromInt(pendingValidators), FromInt(churnLimit))
    IN  [status |-> "ok", epochs |-> epochs,
         days |-> FDiv(epochs, FromInt(EPOCHS_PER_DAY)), churnLimit |-> churnLimit]

----------------------------------------------------------------------------
(* pkg/rewards: the Calculator.  c is the struct, [BaseRewardFactor,       *)
(* TotalActiveBalance]; the package-level names it uses (weights, the      *)
(* maximum effective balance, IntegerSquareRoot) are those of the engine.  *)

CalculateBaseReward(c, effectiveBalance) ==
    LET clamped == IF effectiveBalance > MAX_EFFECTIVE_BALANCE
                   THEN MAX_EFFECTIVE_BALANCE ELSE effectiveBalance
        root    == IntegerSquareRoot(c.TotalActiveBalance)
    IN  IF root = 0 THEN PanicDivide
        ELSE Ok(DivU(MulU(clamped, c.BaseRewardFactor), root))

CalculateMaxAttestationReward(c, effectiveBalance) ==
    LET base == CalculateBaseReward(c, effectiveBalance)
    IN  IF base.status # "ok" THEN base
        ELSE LET sourceReward == ComponentReward(base.value, TIMELY_SOURCE_WEIGHT)
                 targetReward == ComponentReward(base.value, TIMELY_TARGET_WEIGHT)
                 headReward   == ComponentReward(base.value, TIMELY_HEAD_WEIGHT)
             IN  Ok(AddU(AddU(sourceReward, targetReward), headReward))

CalculateProposerReward(c, effectiveBalance) ==
    LET base == CalculateBaseReward(c, effectiveBalance)
    IN  IF base.status # "ok" THEN base
        ELSE Ok(ComponentReward(base.value, PROPOSER_WEIGHT))

CalculateSyncCommitteeReward(c, effectiveBalance) ==
    LET base == CalculateBaseReward(c, effectiveBalance)
    IN  IF base.status # "ok" THEN base
        ELSE Ok(ComponentReward(base.value, SYNC_REWARD_WEIGHT))

\* The annual figures are per-epoch rewards times counts of epochs and
\* blocks, which are not scaled: with the balance clamped and a probability
\* of at most 1 the products stay below 2^60 in the build, so they are
\* taken in the integers and not in the scaled word.
CalculateAnnualReward(c, effectiveBalance, proposerProbability) ==
    LET attestation == CalculateMaxAttestationReward(c, effectiveBalance)
        proposer    == CalculateProposerReward(c, effectiveBalance)
    IN  IF attestation.status # "ok" THEN attestation
        ELSE LET annualAttestationReward == attestation.value * EPOCHS_PER_YEAR
                 expectedBlocksPerYear   ==
                     ToUint(FMul(FromInt(EPOCHS_PER_YEAR * SLOTS_PER_EPOCH),
                                 proposerProbability))
                 annualProposerReward    == proposer.value * expectedBlocksPerYear
             IN  Ok(annualAttestationReward + annualProposerReward)

\* float64(annualReward) / float64(effectiveBalance) * 100
CalculateAPR(c, effectiveBalance, proposerProbability) ==
    LET annual == CalculateAnnualReward(c, effectiveBalance, proposerProbability)
    IN  IF annual.status # "ok" THEN annual
        ELSE Ok(FMul(FDiv(FromInt(annual.value), FromInt(effectiveBalance)),
                     FromInt(100)))

----------------------------------------------------------------------------
(* cmd/calculator: the command line *)

\* createNetworkState(validators) with the flag --inactivity at i
createNetworkState(validators, i) ==
    [Validators |-> [k \in 1 .. validators |->
                        [EffectiveBalance |-> MAX_EFFECTIVE_BALANCE,
                         Slashed          |-> FALSE,
                         InactivityScore  |-> IF i > 0 THEN (i * 4) % Word ELSE 0]],
     TotalActiveBalance |-> MulU(validators, MAX_EFFECTIVE_BALANCE),
     CurrentEpoch       |-> 1000,
     FinalizedEpoch     |-> IF i > 0 /\ validators > 0
                            THEN SubU(SubU(1000, i % Word), 2) ELSE 998,
     CurrentFork        |-> ""]

----------------------------------------------------------------------------
(* The engine and its callers.  state is the Network State the caller      *)
(* holds.  call is the invocation in progress with its arguments and       *)
(* result what it returned (or the panic that ended it); the caller then   *)
(* takes the result and is free to call again.                             *)

MaxValidators == 4

\* Effective balances a caller may put in a Validator: half the maximum,
\* the maximum, twice the maximum, and the least balance whose product with
\* BASE_REWARD_FACTOR no longer fits the word.
EBValues == {MAX_EFFECTIVE_BALANCE \div 2, MAX_EFFECTIVE_BALANCE, 2 * MAX_EFFECTIVE_BALANCE,
             Word \div BASE_REWARD_FACTOR}

\* Caller-supplied total active balances, in validators at the maximum.
TotalCounts == {0, 1, 4, 100}

Totals == {k * MAX_EFFECTIVE_BALANCE : k \in TotalCounts}

\* Participation rates, as the decimals <<n, d>>.
Rates == {<<0, 1>>, <<1, 4>>, <<3333, 10000>>, <<1, 3>>, <<1, 2>>, <<2, 3>>,
          <<6667, 10000>>, <<7, 10>>, <<8, 10>>, <<95, 100>>, <<1, 1>>, <<3, 2>>}

Indices == -1 .. MaxValidators

\* A validator list: validator 0 with any of the balances, the others at
\* the maximum.
ValidatorList(n, eb0) ==
    [k \in 1 .. n |->
        [EffectiveBalance |-> IF k = 1 THEN eb0 ELSE MAX_EFFECTIVE_BALANCE,
         Slashed          |-> FALSE,
         InactivityScore  |-> 0]]

States ==
    {[Validators         |-> ValidatorList(n, eb0),
      TotalActiveBalance |-> t,
      CurrentEpoch       |-> 1000,
      FinalizedEpoch     |-> 998,
      CurrentFork        |-> ""] : n \in 0 .. MaxValidators, eb0 \in EBValues, t \in Totals}

NoCall == [op |-> "none"]

NoResult == [status |-> "none"]

Idle == call = NoCall

Init ==
    /\ state \in States
    /\ call = NoCall
    /\ result = NoResult
    /\ sq = SqrtIdle

CalculateRewardsAct ==
    /\ Idle
    /\ \E p \in Rates :
        /\ call' = [op |-> "CalculateRewards", p |-> p, via |-> "api"]
        /\ result' = CalculateRewards(state, p)
    /\ UNCHANGED <<state, sq>>

GetBaseRewardAct ==
    /\ Idle
    /\ \E i \in Indices :
        /\ call' = [op |-> "GetBaseReward", index |-> i]
        /\ result' = GetBaseReward(state, i)
    /\ UNCHANGED <<state, sq>>

CalculatePenaltiesAct ==
    /\ Idle
    /\ \E i \in Indices, cs \in BOOLEAN, ct \in BOOLEAN, ch \in BOOLEAN :
        /\ call' = [op |-> "CalculatePenalties", index |-> i,
                    correctSource |-> cs, correctTarget |-> ct, correctHead |-> ch]
        /\ result' = CalculatePenalties(state, i, cs, ct, ch)
    /\ UNCHANGED <<state, sq>>

\* A slashing calculation that also marks the validator it was asked about
\* as slashed in the caller's state.
CalculateSlashingPenaltiesActMarking ==
    /\ Idle
    /\ \E i \in Indices, k \in TotalCounts :
        /\ call' = [op |-> "CalculateSlashingPenalties", index |-> i,
                    totalSlashedBalance |-> k * MAX_EFFECTIVE_BALANCE]
        /\ result' = CalculateSlashingPenalties(state, i, k * MAX_EFFECTIVE_BALANCE)
        /\ state' = IF InRange(state, i)
                    THEN [state EXCEPT !.Validators[i + 1].Slashed = TRUE]
                    ELSE state
    /\ UNCHANGED sq

CalculateSlashingPenaltiesAct ==
    /\ Idle
    /\ \E i \in Indices, k \in TotalCounts :
        /\ call' = [op |-> "CalculateSlashingPenalties", index |-> i,
                    totalSlashedBalance |-> k * MAX_EFFECTIVE_BALANCE]
        /\ result' = CalculateSlashingPenalties(state, i, k * MAX_EFFECTIVE_BALANCE)
    /\ UNCHANGED <<state, sq>>

\* A Calculator built for the state's total active balance.
CalculatorFor(st) ==
    [BaseRewardFactor |-> BASE_REWARD_FACTOR, TotalActiveBalance |-> st.TotalActiveBalance]

CalculateBaseRewardAct ==
    /\ Idle
    /\ \E eb \in EBValues :
        /\ call' = [op |-> "Calculator.CalculateBaseReward", effectiveBalance |-> eb]
        /\ result' = CalculateBaseReward(CalculatorFor(state), eb)
    /\ UNCHANGED <<state, sq>>

CalculateMaxAttestationRewardAct ==
    /\ Idle
    /\ \E eb \in EBValues :
        /\ call' = [op |-> "Calculator.CalculateMaxAttestationReward", effectiveBalance |-> eb]
        /\ result' = CalculateMaxAttestationReward(CalculatorFor(state), eb)
    /\ UNCHANGED <<state, sq>>

\* Proposer probabilities a caller passes to the Calculator.
Probabilities == {<<0, 1>>, <<1, 4>>, <<1, 1>>}

CalculateAPRAct ==
    /\ Idle
    /\ \E eb \in EBValues, q \in Probabilities :
        /\ call' = [op |-> "Calculator.CalculateAPR", effectiveBalance |-> eb,
                    proposerProbability |-> q]
        /\ result' = CalculateAPR(CalculatorFor(state), eb, RateF(q))
    /\ UNCHANGED <<state, sq>>

\* main(): eth-rewards -v validators -p participation, the single
\* calculation.  It exits with status 1 on a rejected flag; otherwise it
\* builds the state and calls CalculateRewards on it.
MainAct ==
    /\ Idle
    /\ \E validators \in 0 .. MaxValidators, p \in Rates :
        IF validators = 0 \/ RatLess(<<1, 1>>, p)
        THEN /\ call' = [op |-> "main", validators |-> validators, p |-> p]
             /\ result' = [status |-> "exit", code |-> 1]
             /\ UNCHANGED <<state, sq>>
        ELSE /\ state' = createNetworkState(validators, 0)
             /\ call' = [op |-> "CalculateRewards", p |-> p, via |-> "main"]
             /\ result' = CalculateRewards(state', p)
             /\ UNCHANGED sq

\* The caller takes the result.
ReturnAct ==
    /\ ~Idle
    /\ call' = NoCall
    /\ result' = NoResult
    /\ UNCHANGED <<state, sq>>

Next ==
    \/ CalculateRewardsAct
    \/ GetBaseRewardAct
    \/ CalculatePenaltiesAct
    \/ CalculateSlashingPenaltiesAct
    \/ CalculateBaseRewardAct
    \/ CalculateMaxAttestationRewardAct
    \/ MainAct
    \/ ReturnAct

Spec == Init /\ [][Next]_vars

ApyNext ==
    \/ CalculateRewardsAct
    \/ CalculateAPRAct
    \/ ReturnAct

SpecApy == Init /\ [][ApyNext]_vars

----------------------------------------------------------------------------
(* The attestation side of the engine: the base reward in its variants,    *)
(* the reward of one attestation at an inclusion delay, and the penalty of *)
(* the same attestation.                                                   *)

\* Inclusion delays: none, the minimum, late by 1 and by 4, and the two
\* delays at the end of the word whose sum with PROPOSER_REWARD_QUOTIENT
\* no longer fits it.
Delays == {0, MIN_ATTESTATION_INCLUSION_DELAY, 2, 5,
           Word - PROPOSER_REWARD_QUOTIENT + MIN_ATTESTATION_INCLUSION_DELAY, Word - 1}

GetBaseRewardLegacyAct ==
    /\ Idle
    /\ \E i \in Indices :
        /\ call' = [op |-> "GetBaseReward (Phase 0)", index |-> i]
        /\ result' = GetBaseRewardLegacy(state, i)
    /\ UNCHANGED <<state, sq>>

CalculateAttestationRewardAct ==
    /\ Idle
    /\ \E i \in Indices, cs \in BOOLEAN, ct \in BOOLEAN, ch \in BOOLEAN, d \in Delays :
        /\ call' = [op |-> "CalculateAttestationReward", index |-> i,
                    correctSource |-> cs, correctTarget |-> ct, correctHead |-> ch,
                    inclusionDelay |-> d]
        /\ result' = CalculateAttestationReward(state, i, cs, ct, ch, d)
    /\ UNCHANGED <<state, sq>>

AttestNext ==
    \/ GetBaseRewardAct
    \/ GetBaseRewardLegacyAct
    \/ CalculateBaseRewardAct
    \/ CalculateAttestationRewardAct
    \/ CalculatePenaltiesAct
    \/ ReturnAct

SpecAttest == Init /\ [][AttestNext]_vars

----------------------------------------------------------------------------
(* The penalty engine on states a caller fills in: inactivity scores,      *)
(* epochs at and around the finality window and at the ends of the word,   *)
(* and fork names.                                                         *)

\* Inactivity scores: none, 10 epochs of leak, and the least score whose
\* product with the maximum balance no longer fits the word.
Scores == {0, 10 * INACTIVITY_SCORE_BIAS, Word \div MAX_EFFECTIVE_BALANCE}

\* <<CurrentEpoch, FinalizedEpoch>>
EpochPairs == {<<1000, 998>>, <<1000, 999>>, <<1000, 1000>>,
               <<1000, Word - 1>>, <<Word - 1, 0>>}

ForkNames == {"phase0", "altair", "bellatrix", "merge", "", "electra"}

PenaltyTotals == {0, MAX_EFFECTIVE_BALANCE * MaxValidators, MAX_EFFECTIVE_BALANCE * 100}

\* Validator 0 as the caller filled it in; a second validator, when there
\* is one, at the maximum balance with one epoch of leak.
PenaltyValidators(n, eb0, score0) ==
    [k \in 1 .. n |->
        IF k = 1
        THEN [EffectiveBalance |-> eb0, Slashed |-> FALSE, InactivityScore |-> score0]
        ELSE [EffectiveBalance |-> MAX_EFFECTIVE_BALANCE, Slashed |-> FALSE,
              InactivityScore  |-> INACTIVITY_SCORE_BIAS]]

PenaltyStates ==
    {[Validators         |-> PenaltyValidators(n, eb0, score0),
      TotalActiveBalance |-> t,
      CurrentEpoch       |-> e[1],
      FinalizedEpoch     |-> e[2],
      CurrentFork        |-> f] :
        n \in 1 .. 2, eb0 \in {MAX_EFFECTIVE_BALANCE \div 2, MAX_EFFECTIVE_BALANCE},
        score0 \in Scores, t \in PenaltyTotals, e \in EpochPairs, f \in ForkNames}

PenaltyInit ==
    /\ state \in PenaltyStates
    /\ call = NoCall
    /\ result = NoResult
    /\ sq = SqrtIdle

GetInactivityPenaltyAct ==
    /\ Idle
    /\ \E i \in Indices :
        /\ call' = [op |-> "GetInactivityPenalty", index |-> i]
        /\ result' = GetInactivityPenalty(state, i)
    /\ UNCHANGED <<state, sq>>

GetForkConfigAct ==
    /\ Idle
    /\ \E f \in ForkNames :
        /\ call' = [op |-> "GetForkConfig", fork |-> f]
        /\ result' = [status |-> "ok", value |-> GetForkConfig(f),
                      depth |-> GetForkConfigDepth(f)]
    /\ UNCHANGED <<state, sq>>

PenaltyNext ==
    \/ GetInactivityPenaltyAct
    \/ CalculateRewardsAct
    \/ CalculatePenaltiesAct
    \/ CalculateSlashingPenaltiesAct
    \/ GetForkConfigAct
    \/ ReturnAct

SpecPenalty == PenaltyInit /\ [][PenaltyNext]_vars

----------------------------------------------------------------------------
(* The slashing report: EstimateSlashingImpact on states of validators at  *)
(* the maximum balance, and the classification it ends with on its own.    *)

\* Total active balances: none, 100 validators and 400 validators.
ImpactTotals == {0, 100 * MAX_EFFECTIVE_BALANCE, 400 * MAX_EFFECTIVE_BALANCE}

ImpactStates ==
    {[Validators         |-> ValidatorList(n, MAX_EFFECTIVE_BALANCE),
      TotalActiveBalance |-> t,
      CurrentEpoch       |-> 1000,
      FinalizedEpoch     |-> 998,
      CurrentFork        |-> f] : n \in 0 .. 2, t \in ImpactTotals, f \in {"", "phase0"}}

\* Numbers of slashed validators: few, around the cuts of the
\* classification for 100 validators, and the least count whose balance no
\* longer fits the word.
SlashedCounts == {0, 1, 4, 5, 10, 33, 34, 100, Word \div MAX_EFFECTIVE_BALANCE + 1}

\* Slashed percentages <<n, d>> at and around every cut.
Percentages == {<<0, 1>>, <<5, 100>>, <<999, 10000>>, <<1, 10>>, <<1, 2>>, <<1, 1>>,
                <<499, 100>>, <<5, 1>>, <<99, 10>>, <<10, 1>>, <<332, 10>>,
                <<333, 10>>, <<334, 10>>, <<100, 1>>}

ImpactInit ==
    /\ state \in ImpactStates
    /\ call = NoCall
    /\ result = NoResult
    /\ sq = SqrtIdle

EstimateSlashingImpactAct ==
    /\ Idle
    /\ \E n \in SlashedCounts :
        /\ call' = [op |-> "EstimateSlashingImpact", slashedValidatorCount |-> n]
        /\ result' = EstimateSlashingImpact(state, n)
    /\ UNCHANGED <<state, sq>>

getSecurityImpactLevelAct ==
    /\ Idle
    /\ \E s \in Percentages :
        /\ call' = [op |-> "getSecurityImpactLevel", slashingPercentage |-> s]
        /\ result' = Ok(getSecurityImpactLevel(RateF(s)))
    /\ UNCHANGED <<state, sq>>

ImpactNext ==
    \/ EstimateSlashingImpactAct
    \/ getSecurityImpactLevelAct
    \/ ReturnAct

SpecImpact == ImpactInit /\ [][ImpactNext]_vars

----------------------------------------------------------------------------
(* The activation queue estimate, a function of two counts. *)

\* Current validator counts: none, one, the genesis minimum, and the counts
\* at and just below each step of the churn limit up to twice its cap.
CurrentCounts ==
    {0, 1, 16384, 16 * CHURN_LIMIT_QUOTIENT}
        \cup {k * CHURN_LIMIT_QUOTIENT : k \in 4 .. 9}
        \cup {k * CHURN_LIMIT_QUOTIENT - 1 : k \in {4, 5, 8}}

PendingCounts == {0, 1, 3, 4, 7, 8, 100, 1000, 10000}

QueueInit ==
    /\ EngineIdle
    /\ sq = SqrtIdle

EstimateValidatorQueueAct ==
    /\ Idle
    /\ \E c \in CurrentCounts, q \in PendingCounts :
        /\ call' = [op |-> "EstimateValidatorQueue", currentValidators |-> c,
                    pendingValidators |-> q]
        /\ result' = EstimateValidatorQueue(c, q)
    /\ UNCHANGED <<state, sq>>

QueueNext ==
    \/ EstimateValidatorQueueAct
    \/ ReturnAct

SpecQueue == QueueInit /\ [][QueueNext]_vars

----------------------------------------------------------------------------
(* The inactivity score of validator 0, carried from epoch to epoch by a   *)
(* caller that applies CalculateInactivityScore and stores what it         *)
(* returns.  call keeps, beside the arguments, the run of inactive epochs  *)
(* without finality the step ends (leak epochs from the score base) and    *)
(* the run the step before ended.                                          *)

MaxScore == 48

ScoreInit ==
    /\ state = createNetworkState(1, 0)
    /\ call = [op |-> "none", base |-> 0, leak |-> 0]
    /\ result = NoResult
    /\ sq = SqrtIdle

ProcessEpochAct ==
    /\ ValidatorAt(state, 0).InactivityScore < MaxScore
    /\ \E isActive \in BOOLEAN, isFinalized \in BOOLEAN :
        LET previousScore == ValidatorAt(state, 0).InactivityScore
            next          == CalculateInactivityScore(previousScore, isActive, isFinalized)
            leaking       == ~isActive /\ ~isFinalized
        IN  /\ call' = [op            |-> "CalculateInactivityScore",
                        previousScore |-> previousScore,
                        isActive      |-> isActive,
                        isFinalized   |-> isFinalized,
                        base          |-> IF leaking /\ call.leak > 0
                                          THEN call.base ELSE previousScore,
                        leak          |-> IF leaking THEN call.leak + 1 ELSE 0,
                        baseBefore    |-> call.base,
                        leakBefore    |-> call.leak]
            /\ result' = Ok(next)
            /\ state' = [state EXCEPT !.Validators[1].InactivityScore = next]
    /\ UNCHANGED sq

ScoreNext == ProcessEpochAct

SpecScore == ScoreInit /\ [][ScoreNext]_vars

----------------------------------------------------------------------------
(* Properties *)

\* C1: whenever IntegerSquareRoot has returned, the value r it returned is
\* floor(sqrt(n)): r*r <= n < (r+1)*(r+1), whatever seed the float square
\* root gave the loop; for n = 0 it returned 0.  The stepped loop and the
\* IntegerSquareRoot operator the engine uses return the same value.
C1_FloorSqrt ==
    sq.pc = "done" =>
        /\ sq.ret * sq.ret <= sq.n
        /\ sq.n < (sq.ret + 1) * (sq.ret + 1)
        /\ sq.n = 0 => sq.ret = 0
        /\ sq.ret = IntegerSquareRoot(sq.n)

\* IntegerSquareRoot has returned for an n whose float seed was above the
\* root, so that the loop had to bring it down.
C1_SeedCorrected ==
    /\ sq.pc = "done"
    /\ sq.n > 0
    /\ SqrtSeed(sq.n) > sq.ret

----------------------------------------------------------------------------
(* Reading the call in progress *)

\* The rate is in (0, 1].
ValidRate(p) == RatLess(<<0, 1>>, p) /\ RatLeq(p, <<1, 1>>)

\* CalculateRewards returned a RewardResults.
RewardsReturned == call.op = "CalculateRewards" /\ result.status = "ok"

\* The validator a call with an index names.
Called == ValidatorAt(state, call.index)

\* a and b are finite and at most k units in the last place apart.
WithinUlps(a, b, k) ==
    IF ~IsFinite(a) \/ ~IsFinite(b) \/ a[1] = 0 \/ b[1] = 0 THEN a = b
    ELSE LET lo == IF a[2] < b[2] THEN a[2] ELSE b[2]
             da == a[2] - lo
             db == b[2] - lo
         IN  /\ da <= 1
             /\ db <= 1
             /\ a[1] * 2^da - b[1] * 2^db <= k
             /\ b[1] * 2^db - a[1] * 2^da <= k

\* C2: CalculateRewards called with a participation rate outside (0, 1]
\* fails with InvalidArgument and returns no RewardResults; a rate of 0 gives
\* no infinite multiplier.
C2_RateRejected ==
    (call.op = "CalculateRewards" /\ ~ValidRate(call.p)) =>
        result = [status |-> "error", error |-> "InvalidArgument"]

\* C3: a reward, penalty or slashing computation invoked on a state whose
\* total active balance is 0 fails with InvalidArgument before it computes
\* anything; none reaches a division by zero.
C3_ZeroTotalRejected ==
    (/\ call.op \in {"CalculateRewards", "GetBaseReward", "CalculatePenalties",
                     "CalculateSlashingPenalties"}
     /\ state.TotalActiveBalance = 0) =>
        result = [status |-> "error", error |-> "InvalidArgument"]

\* C4: CalculatePenalties called with an index that is negative or not below
\* the number of validators (an empty list included) ends in the index out
\* of range failure and produces no PenaltyResults; so does CalculateRewards,
\* which reads validator 0, on an empty list.
C4_IndexOutOfRange ==
    /\ (call.op = "CalculatePenalties" /\ ~InRange(state, call.index)) =>
            result = PanicIndex
    /\ (call.op = "CalculateRewards" /\ Len(state.Validators) = 0) =>
            result = PanicIndex

\* CalculatePenalties was called with index -1 on a state that also has a
\* zero total, and the index failure is what ended it.
C4_NegativeIndexSeen ==
    /\ call.op = "CalculatePenalties"
    /\ call.index = -1
    /\ Len(state.Validators) > 0
    /\ state.TotalActiveBalance = 0
    /\ result = PanicIndex

\* C5: the base reward is min(effective_balance, MAX_EFFECTIVE_BALANCE) *
\* BASE_REWARD_FACTOR / isqrt(total_active_balance), truncated: both
\* GetBaseReward and Calculator.CalculateBaseReward clamp the balance first.
C5_BalanceClamped ==
    /\ (call.op = "GetBaseReward" /\ result.status = "ok") =>
            result.value =
                (MinU(Called.EffectiveBalance, MAX_EFFECTIVE_BALANCE) * BASE_REWARD_FACTOR)
                    \div IntegerSquareRoot(state.TotalActiveBalance)
    /\ (call.op = "Calculator.CalculateBaseReward" /\ result.status = "ok") =>
            result.value =
                (MinU(call.effectiveBalance, MAX_EFFECTIVE_BALANCE) * BASE_REWARD_FACTOR)
                    \div IntegerSquareRoot(state.TotalActiveBalance)

\* GetBaseReward on the state the caller holds, with the called validator's
\* balance set to eb and the total to t.
BaseRewardAt(eb, t) ==
    GetBaseReward([state EXCEPT !.Validators[call.index + 1].EffectiveBalance = eb,
                                !.TotalActiveBalance = t], call.index)

\* C6: the base reward is monotone.  For the total of the state, a validator
\* with a larger effective balance never gets a smaller base reward than the
\* one GetBaseReward just returned; for the balance of the called validator,
\* a larger total never gives a larger base reward.  The same holds for
\* Calculator.CalculateBaseReward.
C6_Monotone ==
    /\ (call.op = "GetBaseReward" /\ result.status = "ok") =>
            /\ \A e2 \in EBValues :
                    Called.EffectiveBalance <= e2 =>
                        result.value <= BaseRewardAt(e2, state.TotalActiveBalance).value
            /\ \A t2 \in Totals :
                    state.TotalActiveBalance <= t2 =>
                        result.value >= BaseRewardAt(Called.EffectiveBalance, t2).value
    /\ (call.op = "Calculator.CalculateBaseReward" /\ result.status = "ok") =>
            /\ \A e2 \in EBValues :
                    call.effectiveBalance <= e2 =>
                        result.value <= CalculateBaseReward(CalculatorFor(state), e2).value
            /\ \A t2 \in Totals :
                    state.TotalActiveBalance <= t2 =>
                        result.value >=
                            CalculateBaseReward([CalculatorFor(state) EXCEPT
                                                    !.TotalActiveBalance = t2],
                                                call.effectiveBalance).value

\* C7: each attestation component is base_reward * weight /
\* WEIGHT_DENOMINATOR, multiplied before the truncating division, and the
\* per-epoch attestation reward is the sum of the three truncated
\* components, in CalculateRewards and in
\* Calculator.CalculateMaxAttestationReward.
C7_Components ==
    /\ RewardsReturned =>
        LET b == result.BaseRewardPerEpoch
        IN  /\ result.SourceReward = (b * TIMELY_SOURCE_WEIGHT) \div WEIGHT_DENOMINATOR
            /\ result.TargetReward = (b * TIMELY_TARGET_WEIGHT) \div WEIGHT_DENOMINATOR
            /\ result.HeadReward = (b * TIMELY_HEAD_WEIGHT) \div WEIGHT_DENOMINATOR
            /\ result.AttestationRewardPerEpoch =
                   result.SourceReward + result.TargetReward + result.HeadReward
    /\ (call.op = "Calculator.CalculateMaxAttestationReward" /\ result.status = "ok") =>
        LET b == CalculateBaseReward(CalculatorFor(state), call.effectiveBalance).value
        IN  result.value = (b * TIMELY_SOURCE_WEIGHT) \div WEIGHT_DENOMINATOR
                         + (b * TIMELY_TARGET_WEIGHT) \div WEIGHT_DENOMINATOR
                         + (b * TIMELY_HEAD_WEIGHT) \div WEIGHT_DENOMINATOR

\* CalculateRewards returned components for a base reward where dividing
\* first, or truncating once over the summed weights, would give other
\* numbers.
C7_TruncationSeen ==
    /\ RewardsReturned
    /\ LET b == result.BaseRewardPerEpoch
       IN  /\ result.SourceReward # (b \div WEIGHT_DENOMINATOR) * TIMELY_SOURCE_WEIGHT
           /\ result.AttestationRewardPerEpoch #
                  (b * (TIMELY_SOURCE_WEIGHT + TIMELY_TARGET_WEIGHT + TIMELY_HEAD_WEIGHT))
                      \div WEIGHT_DENOMINATOR

C9_SameBaseline ==
    (RewardsReturned /\ ValidRate(call.p)) =>
        LET full == CalculateRewards(state, <<1, 1>>)
        IN  /\ result.BaseAPY = full.BaseAPY
            /\ result.baseAttestationAnnual = full.baseAttestationAnnual
            /\ result.baseProposerAnnual = full.baseProposerAnnual

\* C10 as stated: the health classification cuts at exactly 1/3, 2/3 and
\* 0.8; p = 1/3 is in the leak band and p = 2/3 in the caution band.
C10_ThirdsBands ==
    RewardsReturned =>
        LET p == call.p
            w == result.NetworkHealthWarning
        IN  /\ RatLess(p, <<1, 3>>) => w = WarnCritical
            /\ (RatLeq(<<1, 3>>, p) /\ RatLess(p, <<2, 3>>)) => w = WarnLeak
            /\ (RatLeq(<<2, 3>>, p) /\ RatLess(p, <<8, 10>>)) => w = WarnCaution
            /\ RatLeq(<<8, 10>>, p) => w = ""

\* C10: the health classification cuts at the decimals 0.3333, 0.6667 and
\* 0.8: p < 0.3333 gives the CRITICAL warning, 0.3333 <= p < 0.6667 the
\* inactivity-leak WARNING, 0.6667 <= p < 0.8 the reduced-security CAUTION
\* and p >= 0.8 the empty string; p = 1/3 and p = 2/3 are both in the leak
\* band.
C10_DecimalBands ==
    RewardsReturned =>
        LET p == call.p
            w == result.NetworkHealthWarning
        IN  /\ RatLess(p, <<3333, 10000>>) => w = WarnCritical
            /\ (RatLeq(<<3333, 10000>>, p) /\ RatLess(p, <<6667, 10000>>)) => w = WarnLeak
            /\ (RatLeq(<<6667, 10000>>, p) /\ RatLess(p, <<8, 10>>)) => w = WarnCaution
            /\ RatLeq(<<8, 10>>, p) => w = ""
            /\ p \in {<<1, 3>>, <<2, 3>>} => w = WarnLeak

\* CalculateRewards returned the leak warning for p = 2/3.
C10_TwoThirdsSeen ==
    /\ RewardsReturned
    /\ call.p = <<2, 3>>
    /\ result.NetworkHealthWarning = WarnLeak

\* C11: the reported APY is the annual reward divided by the effective
\* balance the reward was computed from, times 100: in CalculateRewards the
\* balance of validator 0, in Calculator.CalculateAPR the clamped balance.
C11_ApyDivisor ==
    /\ RewardsReturned =>
            result.APY =
                FMul(FDiv(result.TotalAnnualRewards,
                          FromInt(ValidatorAt(state, 0).EffectiveBalance)),
                     FromInt(100))
    /\ (call.op = "Calculator.CalculateAPR" /\ result.status = "ok") =>
            result.value =
                FMul(FDiv(FromInt(CalculateAnnualReward(CalculatorFor(state),
                                                        call.effectiveBalance,
                                                        RateF(call.proposerProbability)).value),
                          FromInt(MinU(call.effectiveBalance, MAX_EFFECTIVE_BALANCE))),
                     FromInt(100))

\* C12: CalculatePenalties charges each of source, target and head on its
\* own: base_reward * weight / WEIGHT_DENOMINATOR when the duty flag is
\* false and 0 when it is true, with the weights of the reward side, and
\* TotalAttestationPenalty is the sum of the three, for every combination of
\* the flags.
C12_ComponentPenalties ==
    (call.op = "CalculatePenalties" /\ result.status = "ok") =>
        LET b == GetBaseReward(state, call.index).value
        IN  /\ result.SourcePenalty =
                   IF call.correctSource THEN 0
                   ELSE (b * TIMELY_SOURCE_WEIGHT) \div WEIGHT_DENOMINATOR
            /\ result.TargetPenalty =
                   IF call.correctTarget THEN 0
                   ELSE (b * TIMELY_TARGET_WEIGHT) \div WEIGHT_DENOMINATOR
            /\ result.HeadPenalty =
                   IF call.correctHead THEN 0
                   ELSE (b * TIMELY_HEAD_WEIGHT) \div WEIGHT_DENOMINATOR
            /\ result.TotalAttestationPenalty =
                   result.SourcePenalty + result.TargetPenalty + result.HeadPenalty

\* CalculatePenalties returned for a validator that attested the source
\* correctly and missed target and head: no source penalty, the other two
\* charged and different from each other.
C12_MixedFlagsSeen ==
    /\ call.op = "CalculatePenalties"
    /\ result.status = "ok"
    /\ call.correctSource
    /\ ~call.correctTarget
    /\ ~call.correctHead
    /\ result.SourcePenalty = 0
    /\ result.HeadPenalty > 0
    /\ result.TargetPenalty > result.HeadPenalty
    /\ result.TotalAttestationPenalty = result.TargetPenalty + result.HeadPenalty

\* The finality window on the epochs as numbers:
\* current_epoch > finalized_epoch + MIN_ATTESTATION_INCLUSION_DELAY.
InLeakWindow == state.CurrentEpoch > state.FinalizedEpoch + MIN_ATTESTATION_INCLUSION_DELAY

\* effective_balance * inactivity_score / (INACTIVITY_SCORE_BIAS * fork
\* inactivity quotient) of the called validator, in the integers.
LeakFormula ==
    (Called.EffectiveBalance * Called.InactivityScore)
        \div (INACTIVITY_SCORE_BIAS * GetForkConfig(state.CurrentFork).InactivityPenaltyQuotient)

\* C13: the inactivity penalty is effective_balance * inactivity_score /
\* (INACTIVITY_SCORE_BIAS * fork inactivity quotient) exactly when
\* current_epoch > finalized_epoch + MIN_ATTESTATION_INCLUSION_DELAY and 0
\* in every other state, for all epoch values of the word, both as the value
\* of GetInactivityPenalty and as the InactivityPenalty of CalculatePenalties.
C13_LeakWindow ==
    /\ (call.op = "GetInactivityPenalty" /\ result.status = "ok") =>
            result.value = IF InLeakWindow THEN LeakFormula ELSE 0
    /\ (call.op = "CalculatePenalties" /\ result.status = "ok") =>
            result.InactivityPenalty = IF InLeakWindow THEN LeakFormula ELSE 0

\* C14: one step of the recurrence returns previous - min(1, previous) when
\* finalized, whatever isActive is, and never goes below 0; previous +
\* INACTIVITY_SCORE_BIAS when not finalized and not active; previous + 1
\* when not finalized and active.
C14_ScoreStep ==
    call.op = "CalculateInactivityScore" =>
        /\ result.value =
               IF call.isFinalized
               THEN call.previousScore - (IF call.previousScore < 1 THEN call.previousScore ELSE 1)
               ELSE IF ~call.isActive THEN call.previousScore + INACTIVITY_SCORE_BIAS
               ELSE call.previousScore + 1
        /\ result.value >= 0
        /\ ValidatorAt(state, 0).InactivityScore = result.value

\* A finalized epoch of an inactive validator with a positive score took
\* exactly 1 off it.
C14_FinalizedInactiveSeen ==
    /\ call.op = "CalculateInactivityScore"
    /\ call.isFinalized
    /\ ~call.isActive
    /\ call.previousScore > 1
    /\ result.value = call.previousScore - 1

\* C18: iterating the recurrence from score 0, k consecutive epochs without
\* finality of an inactive validator give the score k * INACTIVITY_SCORE_BIAS
\* (40 for k = 10), and a finalized epoch right after them lowers the score
\* by exactly 1 and does not reset it.
C18_LeakRun ==
    call.op = "CalculateInactivityScore" =>
        /\ (call.leak > 0 /\ call.base = 0) =>
                result.value = call.leak * INACTIVITY_SCORE_BIAS
        /\ (call.leak = 10 /\ call.base = 0) => result.value = 40
        /\ (call.isFinalized /\ call.leakBefore > 0 /\ call.baseBefore = 0) =>
                /\ result.value = call.leakBefore * INACTIVITY_SCORE_BIAS - 1
                /\ result.value > 0

\* Ten leak epochs from score 0 were followed by a finalized epoch, which
\* left the score at 39.
C18_TenThenFinalizedSeen ==
    /\ call.op = "CalculateInactivityScore"
    /\ call.isFinalized
    /\ call.leakBefore = 10
    /\ call.baseBefore = 0
    /\ call.previousScore = 40
    /\ result.value = 39

\* C15: CalculateSlashingPenalties returns InitialPenalty = effective_balance
\* / fork min-slashing quotient, ProportionalPenalty = effective_balance *
\* min(total_slashed_balance * fork multiplier, total_active_balance) /
\* total_active_balance as the exact truncated quotient, and TotalPenalty =
\* InitialPenalty + ProportionalPenalty, with the fork config of the state's
\* current fork.
C15_SlashingFormula ==
    (call.op = "CalculateSlashingPenalties" /\ result.status = "ok") =>
        LET forkConfig == GetForkConfig(state.CurrentFork)
            scaled     == call.totalSlashedBalance * forkConfig.ProportionalSlashingMultiplier
            capped     == IF scaled < state.TotalActiveBalance
                          THEN scaled ELSE state.TotalActiveBalance
        IN  /\ result.InitialPenalty =
                   Called.EffectiveBalance \div forkConfig.MinSlashingPenaltyQuotient
            /\ result.ProportionalPenalty =
                   (Called.EffectiveBalance * capped) \div state.TotalActiveBalance
            /\ result.TotalPenalty = result.InitialPenalty + result.ProportionalPenalty

\* The bellatrix configuration, field by field.
BellatrixConfig ==
    [Version |-> "0x02000000",
     InactivityPenaltyQuotient |-> INACTIVITY_PENALTY_QUOTIENT_BELLATRIX,
     MinSlashingPenaltyQuotient |-> MIN_SLASHING_PENALTY_QUOTIENT_BELLATRIX,
     ProportionalSlashingMultiplier |-> PROPORTIONAL_SLASHING_MULTIPLIER_BELLATRIX]

\* C16: GetForkConfig resolves every fork name other than phase0, altair,
\* bellatrix and merge, the empty string included, to the bellatrix
\* configuration; it returns after at most one nested call; and no
\* configuration it returns has an inactivity quotient, a min-slashing
\* quotient or a proportional multiplier of 0.  The engine sees the same: on
\* a state with such a fork name no call ends in a division by a zero
\* quotient.
C16_ForkDefault ==
    /\ call.op = "GetForkConfig" =>
            /\ call.fork \notin {"phase0", "altair", "bellatrix", "merge"} =>
                    result.value = BellatrixConfig
            /\ result.depth <= 2
            /\ result.value.InactivityPenaltyQuotient > 0
            /\ result.value.MinSlashingPenaltyQuotient > 0
            /\ result.value.ProportionalSlashingMultiplier > 0
    /\ (/\ call.op \in {"GetInactivityPenalty", "CalculateSlashingPenalties"}
        /\ InRange(state, call.index)
        /\ state.TotalActiveBalance > 0) => result.status = "ok"

\* GetForkConfig was called with the empty fork name and returned the
\* bellatrix configuration through the nested call.
C16_EmptyForkSeen ==
    /\ call.op = "GetForkConfig"
    /\ call.fork = ""
    /\ result.depth = 2
    /\ result.value = BellatrixConfig

\* C19: whenever total_slashed_balance * fork multiplier >=
\* total_active_balance the clamp is active and CalculateSlashingPenalties
\* returns ProportionalPenalty == effective_balance, for a validator at the
\* maximum balance in a state whose total is a validator count times the
\* maximum balance: no intermediate product wraps.
C19_ClampAtRealisticBalances ==
    (/\ call.op = "CalculateSlashingPenalties"
     /\ result.status = "ok"
     /\ Called.EffectiveBalance = MAX_EFFECTIVE_BALANCE
     /\ state.TotalActiveBalance % MAX_EFFECTIVE_BALANCE = 0
     /\ call.totalSlashedBalance
            * GetForkConfig(state.CurrentFork).ProportionalSlashingMultiplier
                >= state.TotalActiveBalance) =>
        result.ProportionalPenalty = Called.EffectiveBalance

\* The leak penalty of the called validator on the state with its fork set
\* to f.
LeakUnder(f) == GetInactivityPenalty([state EXCEPT !.CurrentFork = f], call.index).value

C17_StateUnchanged ==
    [][(call'.op \in {"CalculateRewards", "CalculatePenalties",
                      "GetInactivityPenalty", "CalculateSlashingPenalties"}) =>
            /\ state' = state
            /\ call'.op = "CalculateRewards" =>
                    result' = CalculateRewards(state', call'.p)
            /\ call'.op = "CalculatePenalties" =>
                    result' = CalculatePenalties(state', call'.index, call'.correctSource,
                                                 call'.correctTarget, call'.correctHead)
            /\ call'.op = "GetInactivityPenalty" =>
                    result' = GetInactivityPenalty(state', call'.index)
            /\ call'.op = "CalculateSlashingPenalties" =>
                    result' = CalculateSlashingPenalties(state', call'.index,
                                                         call'.totalSlashedBalance)]_vars

\* CalculateSlashingPenalties returned a penalty for validator 1 of a state
\* of two validators with inactivity scores, and the validator is not marked
\* slashed.
C17_SlashingReturnedSeen ==
    /\ call.op = "CalculateSlashingPenalties"
    /\ call.index = 1
    /\ result.status = "ok"
    /\ result.TotalPenalty > 0
    /\ Len(state.Validators) = 2
    /\ ~state.Validators[2].Slashed
    /\ state.Validators[1].InactivityScore > 0

\* C21: every base-reward computation uses the same formula.  For a
\* validator with a balance of at most the maximum, GetBaseReward of the
\* Electra variant, GetBaseReward of the Phase 0 variant,
\* Calculator.CalculateBaseReward and the README formula give the same
\* value, and so do the two GetBaseRewardPerIncrement: none is another one
\* divided by BASE_REWARDS_PER_EPOCH.
C21_OneFormula ==
    (/\ call.op = "GetBaseReward"
     /\ result.status = "ok"
     /\ Called.EffectiveBalance <= MAX_EFFECTIVE_BALANCE) =>
        /\ result.value = GetBaseRewardLegacy(state, call.index).value
        /\ result.value = CalculateBaseReward(CalculatorFor(state),
                                              Called.EffectiveBalance).value
        /\ result.value = ReadmeBaseReward(Called.EffectiveBalance,
                                           state.TotalActiveBalance)
        /\ GetBaseRewardPerIncrement(state).value
               = GetBaseRewardPerIncrementLegacy(state).value

\* The attestation reward call in progress was made with an inclusion delay
\* of at most the minimum.
AttestedInTime ==
    /\ call.op = "CalculateAttestationReward"
    /\ call.inclusionDelay <= MIN_ATTESTATION_INCLUSION_DELAY

\* What CalculatePenalties charges for the attestation of the call.
PenaltyOfCall ==
    CalculatePenalties(state, call.index, call.correctSource, call.correctTarget,
                       call.correctHead)

\* C25: for every validator and all 8 combinations of the flags, the reward
\* of CalculateAttestationReward at an inclusion delay of at most the minimum
\* plus the TotalAttestationPenalty of CalculatePenalties for the same flags
\* is the maximum attestation reward: the reward with all three votes
\* correct, which is the penalty with all three missed.  The two calls also
\* fail together.
C25_PenaltyMirrorsReward ==
    AttestedInTime =>
        /\ result.status = PenaltyOfCall.status
        /\ result.status = "ok" =>
            /\ result.value + PenaltyOfCall.TotalAttestationPenalty
                   = CalculateAttestationReward(state, call.index, TRUE, TRUE, TRUE,
                                                call.inclusionDelay).value
            /\ result.value + PenaltyOfCall.TotalAttestationPenalty
                   = CalculatePenalties(state, call.index, FALSE, FALSE,
                                        FALSE).TotalAttestationPenalty

\* An attestation with source and head correct and the target missed was
\* rewarded in time: part of the maximum is paid and the rest is charged.
C25_PartialAttestationSeen ==
    /\ AttestedInTime
    /\ result.status = "ok"
    /\ call.correctSource /\ ~call.correctTarget /\ call.correctHead
    /\ result.value > 0
    /\ PenaltyOfCall.TotalAttestationPenalty > 0
    /\ PenaltyOfCall.TotalAttestationPenalty # result.value

\* The reward of the attestation of the call had it been included with
\* delay d.
RewardAtDelay(d) ==
    CalculateAttestationReward(state, call.index, call.correctSource, call.correctTarget,
                               call.correctHead, d)

\* C30: the inclusion delay only ever reduces the reward.  For a validator
\* of the state and a total with a non-zero root, CalculateAttestationReward
\* returns at every delay (no division by zero); at a delay of at most the
\* minimum it returns the undelayed sum of the earned components, at a later
\* delay that sum * PROPOSER_REWARD_QUOTIENT / (PROPOSER_REWARD_QUOTIENT +
\* delay - MIN_ATTESTATION_INCLUSION_DELAY); and the reward at a delay is at
\* most the reward at every earlier delay.
C30_DelayOnlyReduces ==
    (/\ call.op = "CalculateAttestationReward"
     /\ GetBaseReward(state, call.index).status = "ok") =>
        /\ result.status = "ok"
        /\ LET undelayed == RewardAtDelay(0).value
               d         == call.inclusionDelay
           IN  result.value =
                   IF d <= MIN_ATTESTATION_INCLUSION_DELAY THEN undelayed
                   ELSE (undelayed * PROPOSER_REWARD_QUOTIENT)
                            \div (PROPOSER_REWARD_QUOTIENT + d
                                      - MIN_ATTESTATION_INCLUSION_DELAY)
        /\ \A d1 \in Delays :
                d1 <= call.inclusionDelay =>
                    /\ RewardAtDelay(d1).status = "ok"
                    /\ result.value <= RewardAtDelay(d1).value

\* C27: in every SlashingResult the TotalPenalty is at most the slashed
\* validator's effective balance and PercentageOfStake is at most 100, for
\* every fork, every total slashed balance and every total active balance
\* above 0.
C27_PenaltyWithinBalance ==
    (/\ call.op = "CalculateSlashingPenalties"
     /\ result.status = "ok"
     /\ state.TotalActiveBalance > 0) =>
        /\ result.TotalPenalty <= Called.EffectiveBalance
        /\ ~FLess(FromInt(100), result.PercentageOfStake)

\* The level of a slashed percentage <<n, d>> with strict upper bounds at
\* 0.1, 1, 5, 10 and 33.3.
LevelOf(s) ==
    IF RatLess(s, <<1, 10>>) THEN "Minimal"
    ELSE IF RatLess(s, <<1, 1>>) THEN "Low"
    ELSE IF RatLess(s, <<5, 1>>) THEN "Moderate"
    ELSE IF RatLess(s, <<10, 1>>) THEN "High"
    ELSE IF RatLess(s, <<333, 10>>) THEN "Critical"
    ELSE "Catastrophic"

\* The levels in increasing order of severity.
LevelRank(level) ==
    CASE level = "Minimal" -> 0
      [] level = "Low" -> 1
      [] level = "Moderate" -> 2
      [] level = "High" -> 3
      [] level = "Critical" -> 4
      [] level = "Catastrophic" -> 5

\* C22: getSecurityImpactLevel maps the slashed percentage s to exactly one
\* level with strict upper bounds (s < 0.1 Minimal, < 1 Low, < 5 Moderate,
\* < 10 High, < 33.3 Critical, else Catastrophic), and in the report of
\* EstimateSlashingImpact the level is non-decreasing in the number of
\* slashed validators for a fixed total active balance.
C22_ImpactLevels ==
    /\ call.op = "getSecurityImpactLevel" =>
            result.value = LevelOf(call.slashingPercentage)
    /\ (call.op = "EstimateSlashingImpact" /\ result.status = "ok") =>
            \A fewer \in SlashedCounts :
                fewer <= call.slashedValidatorCount =>
                    LevelRank(EstimateSlashingImpact(state, fewer)
                                  .network_impact.security_impact)
                        <= LevelRank(result.network_impact.security_impact)

\* The activation queue estimate for the pending count of the call and a
\* current count of c.
QueueAt(c) == EstimateValidatorQueue(c, call.pendingValidators)

\* C23: EstimateValidatorQueue uses churn = min(max(MIN_PER_EPOCH_CHURN_LIMIT,
\* current_validators / CHURN_LIMIT_QUOTIENT),
\* MAX_PER_EPOCH_ACTIVATION_CHURN_LIMIT): for every non-negative validator
\* count the churn is between 4 and 8 and never 0, epochs is the float
\* pending / churn, and epochs does not increase when the current validator
\* count does.
C23_ChurnAndQueue ==
    call.op = "EstimateValidatorQueue" =>
        LET quotient == call.currentValidators \div 65536
            churn    == IF quotient < 4 THEN 4 ELSE IF quotient > 8 THEN 8 ELSE quotient
        IN  /\ result.churnLimit = churn
            /\ result.churnLimit \in 4 .. 8
            /\ result.epochs = FDiv(FromInt(call.pendingValidators), FromInt(churn))
            /\ IsFinite(result.epochs)
            /\ \A more \in CurrentCounts :
                    more >= call.currentValidators =>
                        ~FLess(result.epochs, QueueAt(more).epochs)

\* The queue was estimated for a validator set with a churn limit strictly
\* between the two bounds and a non-empty queue, which a larger set clears
\* in strictly fewer epochs.
C23_MiddleChurnSeen ==
    /\ call.op = "EstimateValidatorQueue"
    /\ call.currentValidators = 5 * CHURN_LIMIT_QUOTIENT
    /\ call.pendingValidators = 100
    /\ result.churnLimit = 5
    /\ FLess(QueueAt(8 * CHURN_LIMIT_QUOTIENT).epochs, result.epochs)

\* C24: the Newton loop of IntegerSquareRoot terminates for every n >= 1
\* from the seed the float square root gives it; the iterate x is at least 1
\* whenever the loop divides n by it; and x strictly decreases on every pass
\* of the loop that does not return.
C24_NewtonTerminates ==
    /\ [](sq.pc = "loop" => sq.x >= 1)
    /\ [][(sq.pc = "loop" /\ sq'.pc = "loop") => sq'.x < sq.x]_vars
    /\ (sq.pc = "loop" /\ sq.n >= 1) ~> (sq.pc = "done")

\* The loop is at its head again after a pass that did not return: the
\* iterate is below the seed and the function has not returned yet.
C24_SecondPassSeen ==
    /\ sq.pc = "loop"
    /\ sq.n >= 1
    /\ sq.x >= 1
    /\ sq.x < SqrtSeed(sq.n)

\* C26: the participation weights sum to WEIGHT_DENOMINATOR, so in every
\* RewardResult SourceReward + TargetReward + HeadReward is the
\* AttestationRewardPerEpoch and at most the BaseRewardPerEpoch, and the
\* attestation share together with the proposer-weight and sync-weight
\* shares of one base reward is at most that base reward, in the engine and
\* in the Calculator.
C26_SharesWithinBase ==
    /\ TIMELY_SOURCE_WEIGHT + TIMELY_TARGET_WEIGHT + TIMELY_HEAD_WEIGHT
           + SYNC_REWARD_WEIGHT + PROPOSER_WEIGHT = WEIGHT_DENOMINATOR
    /\ RewardsReturned =>
        /\ result.SourceReward + result.TargetReward + result.HeadReward
               = result.AttestationRewardPerEpoch
        /\ result.AttestationRewardPerEpoch <= result.BaseRewardPerEpoch
        /\ result.AttestationRewardPerEpoch
               + ComponentReward(result.BaseRewardPerEpoch, PROPOSER_WEIGHT)
               + ComponentReward(result.BaseRewardPerEpoch, SYNC_REWARD_WEIGHT)
                   <= result.BaseRewardPerEpoch
    /\ (call.op = "Calculator.CalculateMaxAttestationReward" /\ result.status = "ok") =>
        LET c == CalculatorFor(state)
        IN  /\ result.value <= CalculateBaseReward(c, call.effectiveBalance).value
            /\ result.value
                   + CalculateProposerReward(c, call.effectiveBalance).value
                   + CalculateSyncCommitteeReward(c, call.effectiveBalance).value
                       <= CalculateBaseReward(c, call.effectiveBalance).value

\* CalculateRewards returned for a base reward that the weights do not
\* divide evenly: the five shares are positive and add up to less than the
\* base reward.
C26_RemainderSeen ==
    /\ RewardsReturned
    /\ result.SourceReward > 0
    /\ ComponentReward(result.BaseRewardPerEpoch, SYNC_REWARD_WEIGHT) > 0
    /\ result.AttestationRewardPerEpoch
           + ComponentReward(result.BaseRewardPerEpoch, PROPOSER_WEIGHT)
           + ComponentReward(result.BaseRewardPerEpoch, SYNC_REWARD_WEIGHT)
               < result.BaseRewardPerEpoch

\* The command line: main builds the state with createNetworkState and
\* showPenaltyExamples asks for the inactivity penalty of validator 0 when
\* --inactivity is above 0.
InactivityEpochs == (0 .. 12) \cup {997, 998, 999, 1000, 1001}

CliInit ==
    /\ EngineIdle
    /\ sq = SqrtIdle

createNetworkStateAct ==
    /\ call.op = "none"
    /\ \E validators \in 1 .. MaxValidators, inactivityEpochs \in InactivityEpochs :
        /\ state' = createNetworkState(validators, inactivityEpochs)
        /\ call' = [op               |-> "createNetworkState",
                    validators       |-> validators,
                    inactivityEpochs |-> inactivityEpochs,
                    index            |-> 0]
        /\ result' = [status |-> "built"]
    /\ UNCHANGED sq

showPenaltyExamplesAct ==
    /\ call.op = "createNetworkState"
    /\ call.inactivityEpochs > 0
    /\ call' = [call EXCEPT !.op = "showPenaltyExamples"]
    /\ result' = GetInactivityPenalty(state, 0)
    /\ UNCHANGED <<state, sq>>

CliNext ==
    \/ createNetworkStateAct
    \/ showPenaltyExamplesAct
    \/ ReturnAct

SpecCli == CliInit /\ [][CliNext]_vars

RECURSIVE SumEffectiveBalance(_, _)
SumEffectiveBalance(st, k) ==
    IF k = 0 THEN 0
    ELSE st.Validators[k].EffectiveBalance + SumEffectiveBalance(st, k - 1)

\* C29: for every --inactivity value i > 0 and validator count >= 1 the
\* state built by createNetworkState has FinalizedEpoch = CurrentEpoch - i - 2
\* without wrap-around (FinalizedEpoch < CurrentEpoch), lies inside the
\* non-finality window so that GetInactivityPenalty applies the leak formula,
\* gives every validator InactivityScore = i * INACTIVITY_SCORE_BIAS, and has
\* TotalActiveBalance equal to the sum of the effective balances.
C29_LeakStateBuilt ==
    (call.op \in {"createNetworkState", "showPenaltyExamples"}
        /\ call.inactivityEpochs > 0) =>
        /\ state.FinalizedEpoch = state.CurrentEpoch - call.inactivityEpochs - 2
        /\ state.FinalizedEpoch < state.CurrentEpoch
        /\ InLeakWindow
        /\ \A k \in 1 .. Len(state.Validators) :
               state.Validators[k].InactivityScore
                   = call.inactivityEpochs * INACTIVITY_SCORE_BIAS
        /\ state.TotalActiveBalance
               = SumEffectiveBalance(state, Len(state.Validators))
        /\ call.op = "showPenaltyExamples" =>
               /\ result.status = "ok"
               /\ (Called.EffectiveBalance * Called.InactivityScore < Word) =>
                      result.value = LeakFormula

\* The recurrence driven epoch after epoch by a caller, with the score at the
\* start of the current run of finalized epochs (start) and the length of
\* that run (run, counted up to start + 1).
Score == ValidatorAt(state, 0).InactivityScore

RecoveryInit ==
    /\ state = createNetworkState(1, 0)
    /\ call = [op |-> "none", isFinalized |-> FALSE, start |-> 0, run |-> 0]
    /\ result = NoResult
    /\ sq = SqrtIdle

NonFinalizedEpochAct ==
    /\ Score < MaxScore
    /\ \E isActive \in BOOLEAN :
        LET next == CalculateInactivityScore(Score, isActive, FALSE)
        IN  /\ call' = [op            |-> "CalculateInactivityScore",
                        previousScore |-> Score,
                        isActive      |-> isActive,
                        isFinalized   |-> FALSE,
                        start         |-> next,
                        run           |-> 0]
            /\ result' = Ok(next)
            /\ state' = [state EXCEPT !.Validators[1].InactivityScore = next]
    /\ UNCHANGED sq

FinalizedEpochAct ==
    /\ \E isActive \in BOOLEAN :
        LET next == CalculateInactivityScore(Score, isActive, TRUE)
        IN  /\ call' = [op            |-> "CalculateInactivityScore",
                        previousScore |-> Score,
                        isActive      |-> isActive,
                        isFinalized   |-> TRUE,
                        start         |-> call.start,
                        run           |-> IF call.run > call.start
                                          THEN call.run ELSE call.run + 1]
            /\ result' = Ok(next)
            /\ state' = [state EXCEPT !.Validators[1].InactivityScore = next]
    /\ UNCHANGED sq

RecoveryNext ==
    \/ NonFinalizedEpochAct
    \/ FinalizedEpochAct

\* Epochs keep being processed.
SpecRecovery == RecoveryInit /\ [][RecoveryNext]_vars /\ WF_vars(RecoveryNext)

\* C28: under continued finality the inactivity score recovers: k
\* consecutive finalized steps from score s leave max(0, s - k), the score
\* never wraps below 0, it only increases in non-finalized epochs, it stays 0
\* for as long as epochs keep finalizing, and if from some epoch on every
\* epoch finalizes the score eventually reaches 0 and stays there.
C28_ScoreRecovers ==
    /\ [](call.isFinalized =>
            /\ Score = (IF call.start > call.run THEN call.start - call.run ELSE 0)
            /\ Score <= call.start)
    /\ [][Score' > Score => ~call'.isFinalized]_vars
    /\ [][(Score = 0 /\ call'.isFinalized) => Score' = 0]_vars
    /\ (<>[][FinalizedEpochAct]_vars => <>[](Score = 0))

\* A run of finalized epochs as long as the score it started from brought
\* the score from above 1 down to 0.
C28_RecoveredSeen ==
    /\ call.isFinalized
    /\ call.start > 1
    /\ call.run = call.start
    /\ call.previousScore = 1
    /\ Score = 0

====
